---- MODULE Spec2Model ----
(***************************************************************************)
(* Model of the Sentinel-2 product stage: calculateProducts and            *)
(* getRequiredBandsPaths of Sentinel2/A1_sentinel2_products.py, and the    *)
(* publishing loop of main in sentinel-2_process.py.                       *)
(*                                                                         *)
(* A run is one call of main: calculateProducts iterates the configured    *)
(* products, resolves the per-granule paths, runs the tile pipeline with   *)
(* its cache check, builds the mosaic, and main publishes the result.      *)
(* Every external call (directory listing, gdal open, calculators, Warp,   *)
(* BuildVRT, publish) succeeds or raises; the choice is nondeterministic.  *)
(***************************************************************************)
EXTENDS Integers, Sequences, FiniteSets, TLC

\* ---------------------------------------------------------------- bounds
MaxProducts == 2
MaxGranules == 2
\* Pixels of a band array handed to a calculator.
MaxPixels == 1

\* ------------------------------------------------------------ vocabulary
ProductNames == {"EVI", "NDMI", "NDWI", "NDVI"}

\* The sensor band codes the four branches of calculateProducts look up,
\* in the order in which each branch opens them.
BandOrder(name) ==
    CASE name = "EVI"  -> <<"B08", "B04", "B02">>
      [] name = "NDMI" -> <<"B8A", "B11">>
      [] name = "NDWI" -> <<"B03", "B08">>
      [] name = "NDVI" -> <<"B04", "B08">>

\* requiredBands.values() of a product: the codes its configuration names.
RequiredBands(name) == {BandOrder(name)[j] : j \in 1..Len(BandOrder(name))}

AllBands == {"B02", "B03", "B04", "B08", "B8A", "B11"}

\* products[*].resolution: B08 is delivered at 10 m only, B8A and B11 at
\* 20 m only, so a configuration that can resolve its bands names R20m for
\* NDMI and R10m for the other three.
Resolutions == {"R10m", "R20m"}
Resolution(name) == IF name = "NDMI" THEN "R20m" ELSE "R10m"

\* One .SAFE folder of rawInput/<date>: whether GRANULE can be listed and
\* has a first element, the resolutions whose IMG_DATA/<resolution> folder
\* can be listed, and the band codes of the files listed there.  The kinds
\* drawn are: GRANULE unreadable; everything present; IMG_DATA/R20m
\* missing; and a folder whose listings hold a B04 file only.
SafeFolderKinds ==
    {[granule |-> FALSE, img |-> {},               bands |-> {}],
     [granule |-> TRUE,  img |-> {"R10m", "R20m"}, bands |-> AllBands],
     [granule |-> TRUE,  img |-> {"R10m"},         bands |-> AllBands],
     [granule |-> TRUE,  img |-> {"R10m", "R20m"}, bands |-> {"B04"}]}

Dates == {"20240105"}
NoDate == "absent"

SeqsUpTo(S, n) == UNION {[1..k -> S] : k \in 0..n}

\* The keys of params["products"] in file order: the products are listed
\* in the order of the branches of calculateProducts, each at most once.
BranchOrder == <<"EVI", "NDMI", "NDWI", "NDVI">>
Position(name) == CHOOSE k \in DOMAIN BranchOrder : BranchOrder[k] = name
IsConfiguration(s) ==
    /\ Len(s) >= 1
    /\ \A i, j \in DOMAIN s : i < j => Position(s[i]) < Position(s[j])

VARIABLES
    \* configuration and file system (inputs of the run)
    productArgs,    \* params["products"]: the configured product names, in order
    imageryDate,    \* the date handed to calculateProducts
    rawDirExists,   \* rawInput/<date> can be listed
    safeFolders,    \* the listing of rawInput/<date>
    tileFiles,      \* tile files present under productOutput
    mosaicFiles,    \* mosaic (.vrt) files present under productOutput
    \* locals of calculateProducts
    pc,
    prodIdx,        \* position of prodId in productArgs.keys()
    newProducts,
    paths,          \* requiredInputOutputPaths
    outName,
    tiles,
    tile,           \* position of the tile loop in paths.keys()
    mosaicName,
    \* main
    pubIdx,
    published,      \* calls of publishNewDataset, in order
    \* history of the current product iteration
    resolution,     \* outcome of the last getRequiredBandsPaths call
    looked,         \* entries whose output path was looked up (lines 268-270)
    hits,           \* granule indices whose tile existed at iteration start
    processed,      \* granule indices for which openRasterOneBand, a
                    \* calculator, createMemoryRaster or gdal.Warp was called
    good,           \* granule indices freshly produced or cache hit
    failed,         \* granule indices whose pipeline failed
    vrtCalls,       \* calls of gdal.BuildVRT
    stage,          \* what the current tile iteration did so far: the bands
                    \* loaded, the calculators called, the result materialized
    cName,          \* the calculator called: the name of its product
    cBands,         \* its arguments: band code -> array of digital numbers
    cIndex,         \* the array it computes and masks in place
    cRaw,           \* the array as the equation left it, before any mask
    cPc,            \* the statement of the calculator that runs next
    nm,             \* one call of getRequiredBandsPaths with raw file names
    dlPc,           \* where sentinelImageryDownloader and main stand
    xmlI,           \* getProductXML: the counter i
    xmlStatus,      \* getProductXML: status code of the last response
    xmlContent,     \* what getProductXML returned
    productParams,  \* the entries selected by getProductParams, in order
    dIdx,           \* downoadImagery: the entry the loop is at
    dDate,          \* downoadImagery: its local imageryDate
    rawFolders,     \* the dates whose folder exists under the raw-input root
    extracted,      \* per date, the products extracted into its folder
    lastDate,       \* acquisition date of the last selected entry
    \* history of the run
    raisedFor,      \* products whose path resolution raised
    completed       \* products whose gdal.BuildVRT returned

envVars == <<productArgs, imageryDate, rawDirExists, safeFolders>>
locVars == <<prodIdx, newProducts, paths, outName, tiles, tile, mosaicName>>
mainVars == <<pubIdx, published>>
tileHist == <<looked, hits, processed, good, failed, vrtCalls>>
diskVars == <<tileFiles, mosaicFiles>>
runHist == <<raisedFor, completed>>
prodVars == <<envVars, diskVars, pc, locVars, mainVars, resolution, tileHist, stage,
              runHist>>
calcVars == <<cName, cBands, cIndex, cRaw, cPc>>
nameVars == <<nm>>
dlLocals == <<xmlI, xmlStatus, xmlContent, productParams, dIdx, dDate>>
dlVars == <<dlPc, dlLocals, rawFolders, extracted, lastDate>>
auxVars == <<calcVars, nameVars, dlVars>>
vars == <<prodVars, auxVars>>

\* ------------------------------------------------- getRequiredBandsPaths

\* processingPaths[ii] as built by lines 56-71: a key per required band
\* code (req), a raw file for the codes that matched (res), and the keys
\* outFolder and outName only when some raw file matched (hasOut).
ProcessingPath(product, ii, folder) ==
    [prod   |-> product,
     idx    |-> ii,
     req    |-> RequiredBands(product),
     res    |-> RequiredBands(product) \cap folder.bands,
     hasOut |-> RequiredBands(product) \cap folder.bands # {}]

RECURSIVE ResolveFrom(_, _, _)
ResolveFrom(product, k, acc) ==
    IF k > Len(safeFolders)
    THEN [raised |-> FALSE, listFailed |-> FALSE, entries |-> acc]
    ELSE IF ~safeFolders[k].granule
    THEN [raised |-> FALSE, listFailed |-> TRUE, entries |-> acc]
    ELSE IF Resolution(product) \notin safeFolders[k].img
    THEN [raised |-> TRUE, listFailed |-> TRUE, entries |-> <<>>]
    ELSE ResolveFrom(product, k + 1,
                     Append(acc, ProcessingPath(product, k - 1, safeFolders[k])))

getRequiredBandsPaths(product) ==
    IF ~rawDirExists
    THEN [raised |-> TRUE, listFailed |-> FALSE, entries |-> <<>>]
    ELSE ResolveFrom(product, 1, <<>>)

\* os.path.join(outFolder, outName) of an entry.
TilePath(e) == [date |-> imageryDate, product |-> e.prod, ii |-> e.idx]

\* os.path.join(mosaicFolder, mosaicName), lines 463-475: the folder is that
\* of the product, the name is the one cut out of outName.
MosaicPath(product, name) == [date |-> imageryDate, folder |-> product, name |-> name]

NoStage == [loaded |-> {}, calc |-> {}, mem |-> FALSE]

\* ------------------------------------------------------------------ Init
\* Nothing has run yet: line 232 and the history variables.
LocalsInit ==
    /\ prodIdx = 0
    /\ newProducts = <<>>
    /\ paths = [bound |-> FALSE, entries |-> <<>>]
    /\ outName = [bound |-> FALSE, date |-> "", prod |-> "", idx |-> 0]
    /\ tiles = <<>>
    /\ tile = 1
    /\ mosaicName = [date |-> "", product |-> ""]
    /\ pubIdx = 1
    /\ published = <<>>
    /\ resolution = [raised |-> FALSE, listFailed |-> FALSE, entries |-> <<>>]
    /\ looked = {} /\ hits = {} /\ processed = {} /\ good = {}
    /\ failed = {} /\ vrtCalls = {}
    /\ stage = NoStage
    /\ raisedFor = {} /\ completed = {}

ProductInit ==
    /\ productArgs \in {s \in SeqsUpTo(ProductNames, MaxProducts) :
                          IsConfiguration(s)}
    /\ imageryDate \in Dates
    /\ rawDirExists \in BOOLEAN
    /\ safeFolders \in SeqsUpTo(SafeFolderKinds, MaxGranules)
    /\ rawDirExists = FALSE => safeFolders = <<>>
    /\ \E c \in 0..MaxGranules :
          /\ tileFiles = {[date |-> imageryDate, product |-> productArgs[p], ii |-> i] :
                             p \in DOMAIN productArgs, i \in 0..(c - 1)}
          /\ mosaicFiles =
                IF c >= 1
                THEN {MosaicPath(productArgs[p],
                                 [date |-> imageryDate, product |-> productArgs[p]]) :
                         p \in DOMAIN productArgs}
                ELSE {}
    /\ pc = "nextProduct"
    /\ LocalsInit

\* No calculator is running.
CalcIdle ==
    /\ cName = "" /\ cBands = <<>> /\ cIndex = <<>> /\ cRaw = <<>>
    /\ cPc = "idle"

\* getRequiredBandsPaths is not being looked at on its own.
NamesIdle == nm = [pc |-> "idle"]

\* Acquisition dates of the catalogue entries.
AcquisitionDates == {"20240105", "20240110"}

\* The locals of the downloader before it runs and after it returned.
DlLocalsInit ==
    /\ xmlI = 0 /\ xmlStatus = 0 /\ xmlContent = "none"
    /\ productParams = <<>> /\ dIdx = 0 /\ dDate = NoDate

\* The downloader is not part of the run: the date is given.
DlIdle ==
    /\ dlPc = "idle"
    /\ DlLocalsInit
    /\ rawFolders = {} /\ extracted = [d \in AcquisitionDates |-> 0]
    /\ lastDate = NoDate

Init == ProductInit /\ CalcIdle /\ NamesIdle /\ DlIdle


\* ------------------------------------------------------ calculateProducts

Crash == "calcCrashed"

CurrentName == productArgs[prodIdx]
CurrentEntry == paths.entries[tile]

PathExistsNever(p) == FALSE

\* os.path.exists(os.path.join(outFolder, outName)), line 270.
PathExists(p) == p \in tileFiles

SkipTileBreak ==
    /\ failed' = failed \cup {CurrentEntry.idx}
    /\ tile' = Len(paths.entries) + 1
    /\ tiles' = tiles
    /\ pc' = "tileLoop"

\* `continue` of the tile loop (lines 282 ... 457): the tile is not
\* appended and the loop moves to the next key.
SkipTileFallThrough ==
    /\ failed' = failed \cup {CurrentEntry.idx}
    /\ tile' = tile
    /\ tiles' = tiles
    /\ pc' = "warp"

SkipTile ==
    /\ failed' = failed \cup {CurrentEntry.idx}
    /\ tile' = tile + 1
    /\ tiles' = tiles
    /\ pc' = "tileLoop"

\* Lines 234-240: next prodId; its entry is put into newProducts at once.
StartProduct ==
    /\ pc = "nextProduct"
    /\ prodIdx < Len(productArgs)
    /\ prodIdx' = prodIdx + 1
    /\ newProducts' = Append(newProducts,
                             [name |-> productArgs[prodIdx + 1], newDate |-> NoDate])
    /\ pc' = "resolve"
    /\ resolution' = [raised |-> FALSE, listFailed |-> FALSE, entries |-> <<>>]
    /\ looked' = {} /\ hits' = {} /\ processed' = {} /\ good' = {}
    /\ failed' = {} /\ vrtCalls' = {}
    /\ stage' = NoStage
    /\ UNCHANGED <<auxVars, envVars, mosaicFiles, tileFiles, paths, outName, tiles, tile, mosaicName,
                   mainVars, runHist>>

\* Lines 244-249: the except branch only logs; requiredInputOutputPaths
\* keeps whatever it held before the call.
ResolvePaths ==
    /\ pc = "resolve"
    /\ LET r == getRequiredBandsPaths(CurrentName) IN
         /\ resolution' = r
         /\ IF r.raised
            THEN /\ paths' = paths
                 /\ raisedFor' = raisedFor \cup {prodIdx}
            ELSE /\ paths' = [bound |-> TRUE, entries |-> r.entries]
                 /\ raisedFor' = raisedFor
    /\ pc' = "folders"
    /\ UNCHANGED <<auxVars, envVars, mosaicFiles, stage, tileFiles, prodIdx, newProducts, outName, tiles, tile,
                   mosaicName, mainVars, tileHist, completed>>

\* Lines 251-266: the folder loop reads requiredInputOutputPaths and the
\* key "outFolder" of every entry outside any try; a failing
\* createOutFolder is logged and skipped and changes nothing here.
CreateOutFolders ==
    /\ pc = "folders"
    /\ IF ~paths.bound
          \/ \E k \in DOMAIN paths.entries : ~paths.entries[k].hasOut
       THEN /\ pc' = Crash
            /\ UNCHANGED <<tiles, tile>>
       ELSE /\ pc' = "tileLoop"
            /\ tiles' = <<>>
            /\ tile' = 1
    /\ UNCHANGED <<auxVars, envVars, mosaicFiles, stage, tileFiles, prodIdx, newProducts, paths, outName,
                   mosaicName, mainVars, resolution, tileHist, runHist>>

\* Lines 267-270 and 458-460: the cache check of one granule; on a hit the
\* rest of the iteration is `pass` and the append.
TileCheck ==
    /\ pc = "tileLoop"
    /\ tile <= Len(paths.entries)
    /\ LET e == CurrentEntry IN
         /\ outName' = [bound |-> TRUE, date |-> imageryDate,
                        prod |-> e.prod, idx |-> e.idx]
         /\ looked' = looked \cup {e}
         /\ hits' = IF TilePath(e) \in tileFiles THEN hits \cup {e.idx} ELSE hits
         /\ stage' = NoStage
         /\ IF PathExists(TilePath(e))
            THEN /\ tiles' = Append(tiles, TilePath(e))
                 /\ tile' = tile + 1
                 /\ good' = good \cup {e.idx}
                 /\ pc' = "tileLoop"
            ELSE /\ pc' = "openBands"
                 /\ UNCHANGED <<tiles, tile, good>>
    /\ UNCHANGED <<auxVars, envVars, mosaicFiles, tileFiles, prodIdx, newProducts, paths, mosaicName,
                   mainVars, resolution, processed, failed, vrtCalls, runHist>>

\* The openRasterOneBand calls of the branch selected by the product name
\* (lines 276-296, 324-338, 366-380, 409-423).  k bands are loaded; the
\* next one fails: its key is missing from the entry (KeyError inside the
\* try, before openRasterOneBand is reached), its value is the empty dict
\* left by line 59, or gdal cannot open the file.
OpenBands ==
    /\ pc = "openBands"
    /\ LET e == CurrentEntry
           order == BandOrder(CurrentName)
       IN \E k \in 0..Len(order) :
            /\ \A j \in 1..k : order[j] \in e.res
            /\ processed' = IF k >= 1 \/ order[1] \in e.req
                            THEN processed \cup {e.idx} ELSE processed
            /\ stage' = [stage EXCEPT !.loaded = {order[j] : j \in 1..k}]
            /\ IF k = Len(order)
               THEN /\ pc' = "calculate"
                    /\ UNCHANGED <<tile, tiles, failed>>
               ELSE SkipTile
    /\ UNCHANGED <<auxVars, envVars, mosaicFiles, tileFiles, prodIdx, newProducts, paths, outName,
                   mosaicName, mainVars, resolution, looked, hits, good, vrtCalls,
                   runHist>>

\* calculateEVI / NDMI / NDWI / NDVI inside its try (lines 299-305 ...).
Calculate ==
    /\ pc = "calculate"
    /\ processed' = processed \cup {CurrentEntry.idx}
    /\ stage' = [stage EXCEPT !.calc = @ \cup {CurrentName}]
    /\ \E ok \in BOOLEAN :
         IF ok THEN /\ pc' = "materialize"
                    /\ UNCHANGED <<tile, tiles, failed>>
               ELSE SkipTile
    /\ UNCHANGED <<auxVars, envVars, mosaicFiles, tileFiles, prodIdx, newProducts, paths, outName,
                   mosaicName, mainVars, resolution, looked, hits, good, vrtCalls,
                   runHist>>

\* createMemoryRaster inside its try (lines 309-315 ...).
Materialize ==
    /\ pc = "materialize"
    /\ processed' = processed \cup {CurrentEntry.idx}
    /\ \E ok \in BOOLEAN :
         IF ok THEN /\ pc' = "warp"
                    /\ stage' = [stage EXCEPT !.mem = TRUE]
                    /\ UNCHANGED <<tile, tiles, failed>>
               ELSE /\ SkipTile
                    /\ UNCHANGED stage
    /\ UNCHANGED <<auxVars, envVars, mosaicFiles, tileFiles, prodIdx, newProducts, paths, outName,
                   mosaicName, mainVars, resolution, looked, hits, good, vrtCalls,
                   runHist>>

\* gdal.Warp to the tile path, then the append (lines 449-460).  A failing
\* gdal.Warp raises, as the handler at lines 454-457 expects.
Warp ==
    /\ pc = "warp"
    /\ processed' = processed \cup {CurrentEntry.idx}
    /\ \E ok \in BOOLEAN :
         IF ok THEN /\ tileFiles' = tileFiles \cup {TilePath(CurrentEntry)}
                    /\ tiles' = Append(tiles, TilePath(CurrentEntry))
                    /\ tile' = tile + 1
                    /\ good' = good \cup {CurrentEntry.idx}
                    /\ pc' = "tileLoop"
                    /\ UNCHANGED failed
               ELSE /\ SkipTile
                    /\ UNCHANGED <<tileFiles, good>>
    /\ UNCHANGED <<auxVars, envVars, mosaicFiles, stage, prodIdx, newProducts, paths, outName, mosaicName,
                   mainVars, resolution, looked, hits, vrtCalls, runHist>>

\* Lines 462-464, after the tile loop: the mosaic name is cut out of the
\* local outName, which only the tile loop assigns.
MosaicName ==
    /\ pc = "tileLoop"
    /\ tile > Len(paths.entries)
    /\ stage' = NoStage
    /\ IF ~outName.bound
       THEN /\ pc' = Crash
            /\ UNCHANGED mosaicName
       ELSE /\ pc' = "mosaicFolder"
            /\ mosaicName' = [date |-> outName.date, product |-> outName.prod]
    /\ UNCHANGED <<auxVars, envVars, mosaicFiles, tileFiles, prodIdx, newProducts, paths, outName, tiles,
                   tile, mainVars, resolution, tileHist, runHist>>

\* Lines 466-473: createOutFolder(mosaicFolder); on failure `continue`.
CreateMosaicFolder ==
    /\ pc = "mosaicFolder"
    /\ \E ok \in BOOLEAN : pc' = IF ok THEN "buildVRT" ELSE "nextProduct"
    /\ UNCHANGED <<auxVars, envVars, mosaicFiles, stage, tileFiles, locVars, mainVars, resolution, tileHist,
                   runHist>>

\* Lines 475-487: gdal.BuildVRT(mosaicPath, tiles); newDate is recorded
\* only when it returns.
BuildVRT ==
    /\ pc = "buildVRT"
    /\ vrtCalls' = vrtCalls \cup
          {[folder |-> CurrentName, name |-> mosaicName, tiles |-> tiles,
            existed |-> MosaicPath(CurrentName, mosaicName) \in mosaicFiles]}
    /\ \E ok \in BOOLEAN :
         IF ok THEN /\ mosaicFiles' = mosaicFiles \cup
                                         {MosaicPath(CurrentName, mosaicName)}
                    /\ newProducts' = [newProducts EXCEPT
                                         ![prodIdx].newDate = imageryDate]
                    /\ completed' = completed \cup {prodIdx}
               ELSE UNCHANGED <<mosaicFiles, newProducts, completed>>
    /\ pc' = "nextProduct"
    /\ UNCHANGED <<auxVars, envVars, stage, tileFiles, prodIdx, paths, outName, tiles, tile,
                   mosaicName, mainVars, resolution, looked, hits, processed, good,
                   failed, raisedFor>>

\* Lines 489-490: the product loop is exhausted.
Return ==
    /\ pc = "nextProduct"
    /\ prodIdx = Len(productArgs)
    /\ pc' = "returned"
    /\ pubIdx' = 1
    /\ UNCHANGED <<auxVars, envVars, mosaicFiles, stage, tileFiles, locVars, published, resolution, tileHist,
                   runHist>>

\* ------------------------------------------------------------------ main

\* sentinel-2_process.py lines 26-28: newProducts[prId]["newDate"] is read
\* for every key; publishNewDataset may itself raise.
Publish ==
    /\ pc = "returned"
    /\ pubIdx <= Len(newProducts)
    /\ IF newProducts[pubIdx].newDate = NoDate
       THEN /\ pc' = "mainCrashed"
            /\ UNCHANGED <<pubIdx, published>>
       ELSE /\ published' = Append(published, <<newProducts[pubIdx].name,
                                                newProducts[pubIdx].newDate>>)
            /\ \E ok \in BOOLEAN :
                 IF ok THEN pubIdx' = pubIdx + 1 /\ pc' = pc
                       ELSE pubIdx' = pubIdx /\ pc' = "mainCrashed"
    /\ UNCHANGED <<auxVars, envVars, mosaicFiles, stage, tileFiles, locVars, resolution, tileHist, runHist>>

MainDone ==
    /\ pc = "returned"
    /\ pubIdx > Len(newProducts)
    /\ pc' = "done"
    /\ UNCHANGED <<auxVars, envVars, mosaicFiles, stage, tileFiles, locVars, mainVars, resolution, tileHist,
                   runHist>>

Next ==
    \/ StartProduct
    \/ ResolvePaths
    \/ CreateOutFolders
    \/ TileCheck
    \/ OpenBands
    \/ Calculate
    \/ Materialize
    \/ Warp
    \/ MosaicName
    \/ CreateMosaicFolder
    \/ BuildVRT
    \/ Return
    \/ Publish
    \/ MainDone

Spec == Init /\ [][Next]_vars


\* ------------------------------------------------------- the calculators
\* Lines 136-211.  A pixel of a band is the digital number of a Sentinel-2
\* raster read by openRasterOneBand (an unsigned integer cast to float32); a
\* pixel of the result is a floating-point value: a number kept as the
\* reduced fraction n/d, an infinity (n is its sign) or NaN.  Values are
\* exact: the rounding of float32 is not modelled.

\* Digital numbers the model draws the pixels from.
DigitalNumbers == {0, 500, 2000, 2600, 8000}

Abs(n) == IF n < 0 THEN 0 - n ELSE n

RECURSIVE GCD(_, _)
GCD(a, b) == IF b = 0 THEN a ELSE GCD(b, a % b)

Num(n, d) == LET g == GCD(Abs(n), d) IN [k |-> "num", n |-> n \div g, d |-> d \div g]
NaN == [k |-> "nan", n |-> 0, d |-> 1]
Inf(sign) == [k |-> "inf", n |-> sign, d |-> 1]
Sign(n) == IF n < 0 THEN 0 - 1 ELSE 1

\* The arithmetic of the equations; sums and differences are only taken of
\* finite values there.
Add(x, y) ==
    LET l == (x.d \div GCD(x.d, y.d)) * y.d
    IN  Num(x.n * (l \div x.d) + y.n * (l \div y.d), l)

Sub(x, y) == Add(x, [y EXCEPT !.n = 0 - y.n])

Mul(x, y) ==
    IF y.k = "nan" THEN NaN
    ELSE IF y.k = "inf" THEN Inf(Sign(x.n) * y.n)
    ELSE LET g1 == GCD(Abs(x.n), y.d)
             g2 == GCD(Abs(y.n), x.d)
         IN  Num((x.n \div g1) * (y.n \div g2), (x.d \div g2) * (y.d \div g1))

\* x / y as numpy divides: 0/0 is NaN, anything else over 0 an infinity.
Div(x, y) ==
    IF y.n = 0 THEN (IF x.n = 0 THEN NaN ELSE Inf(Sign(x.n)))
    ELSE LET g1 == GCD(Abs(x.n), Abs(y.n))
             g2 == GCD(x.d, y.d)
             n == (x.n \div g1) * (y.d \div g2)
             d == (x.d \div g2) * (y.n \div g1)
         IN  IF d < 0 THEN Num(0 - n, 0 - d) ELSE Num(n, d)

\* x > y and x < y for a finite y; every comparison with NaN is false.
Greater(x, y) ==
    IF x.k = "nan" THEN FALSE
    ELSE IF x.k = "inf" THEN x.n > 0
    ELSE x.n * y.d > y.n * x.d

Less(x, y) ==
    IF x.k = "nan" THEN FALSE
    ELSE IF x.k = "inf" THEN x.n < 0
    ELSE x.n * y.d < y.n * x.d

\* The no-data value -9999.0.
NoData == Num(0 - 9999, 1)

\* The reflectance scale: every band is divided by 10000.
Scale == Num(10000, 1)

\* Line 145.
EVIEquation(B08, B04, B02) ==
    Mul(Num(5, 2),
        Div(Sub(Div(Num(B08, 1), Scale), Div(Num(B04, 1), Scale)),
            Add(Sub(Add(Div(Num(B08, 1), Scale),
                        Mul(Num(6, 1), Div(Num(B04, 1), Scale))),
                    Mul(Num(15, 2), Div(Num(B02, 1), Scale))),
                Num(1, 1))))

\* Lines 164, 183 and 202: the same equation on two bands.
NormalizedDifference(X, Y) ==
    Div(Sub(Div(Num(X, 1), Scale), Div(Num(Y, 1), Scale)),
        Add(Div(Num(X, 1), Scale), Div(Num(Y, 1), Scale)))

\* The equation of the calculator of a product on one pixel of its bands.
Equation(name, B) ==
    IF name = "EVI" THEN EVIEquation(B["B08"], B["B04"], B["B02"])
    ELSE IF name = "NDMI" THEN NormalizedDifference(B["B8A"], B["B11"])
    ELSE IF name = "NDWI" THEN NormalizedDifference(B["B03"], B["B08"])
    ELSE NormalizedDifference(B["B08"], B["B04"])

\* The bands in the order their zero masks are applied.
ZeroMaskOrder(name) ==
    IF name = "EVI" THEN <<"B08", "B04", "B02">>
    ELSE IF name = "NDMI" THEN <<"B8A", "B11">>
    ELSE IF name = "NDWI" THEN <<"B03", "B08">>
    ELSE <<"B04", "B08">>

\* The bounds of the range masks.
UpperBound(name) == IF name = "EVI" THEN Num(5, 4) ELSE Num(1, 1)
LowerBound(name) == Num(0 - 1, 1)

\* X[mask] = -9999.0 for the masks of the calculators.
MaskNaN(X) == [p \in DOMAIN X |-> IF X[p].k = "nan" THEN NoData ELSE X[p]]

MaskInf(X) == [p \in DOMAIN X |-> IF X[p].k = "inf" THEN NoData ELSE X[p]]

MaskZeroNone(X, band) == X

MaskZero(X, band) == [p \in DOMAIN X |-> IF band[p] = 0 THEN NoData ELSE X[p]]

MaskAboveNone(X, max) == X

MaskAbove(X, max) == [p \in DOMAIN X |-> IF Greater(X[p], max) THEN NoData ELSE X[p]]

MaskBelow(X, min) == [p \in DOMAIN X |-> IF Less(X[p], min) THEN NoData ELSE X[p]]

\* A calculator is called with the bands of its product, all of one shape.
CalcInit ==
    /\ cName \in ProductNames
    /\ \E len \in 1..MaxPixels :
          cBands \in [RequiredBands(cName) -> [1..len -> DigitalNumbers]]
    /\ cIndex = <<>> /\ cRaw = <<>>
    /\ cPc = "equation"

\* The first statement: the equation, pixel by pixel.
CalcEquation ==
    /\ cPc = "equation"
    /\ LET order == ZeroMaskOrder(cName)
           X == [p \in DOMAIN cBands[order[1]] |->
                    Equation(cName, [b \in RequiredBands(cName) |-> cBands[b][p]])]
       IN  cIndex' = X /\ cRaw' = X
    /\ cPc' = "isnan"
    /\ UNCHANGED <<prodVars, nameVars, dlVars, cName, cBands>>

CalcMaskNaN ==
    /\ cPc = "isnan"
    /\ cIndex' = MaskNaN(cIndex)
    /\ cPc' = "isinf"
    /\ UNCHANGED <<prodVars, nameVars, dlVars, cName, cBands, cRaw>>

CalcMaskInf ==
    /\ cPc = "isinf"
    /\ cIndex' = MaskInf(cIndex)
    /\ cPc' = "zero1"
    /\ UNCHANGED <<prodVars, nameVars, dlVars, cName, cBands, cRaw>>

\* The zero masks, one statement per band; calculateEVI has three.
CalcMaskZero ==
    /\ \E z \in 1..Len(ZeroMaskOrder(cName)) :
          /\ cPc = <<"zero1", "zero2", "zero3">>[z]
          /\ cIndex' = MaskZero(cIndex, cBands[ZeroMaskOrder(cName)[z]])
          /\ cPc' = IF z = Len(ZeroMaskOrder(cName))
                    THEN "above" ELSE <<"zero1", "zero2", "zero3">>[z + 1]
    /\ UNCHANGED <<prodVars, nameVars, dlVars, cName, cBands, cRaw>>

CalcMaskAbove ==
    /\ cPc = "above"
    /\ cIndex' = MaskAbove(cIndex, UpperBound(cName))
    /\ cPc' = "below"
    /\ UNCHANGED <<prodVars, nameVars, dlVars, cName, cBands, cRaw>>

\* The last mask; the next statement returns the array.
CalcMaskBelow ==
    /\ cPc = "below"
    /\ cIndex' = MaskBelow(cIndex, LowerBound(cName))
    /\ cPc' = "return"
    /\ UNCHANGED <<prodVars, nameVars, dlVars, cName, cBands, cRaw>>

CalcReturn ==
    /\ cPc = "return"
    /\ cPc' = "returned"
    /\ UNCHANGED <<prodVars, nameVars, dlVars, cName, cBands, cIndex, cRaw>>

\* The product stage at rest while a calculator is looked at on its own.
ProductIdle ==
    /\ productArgs = <<>> /\ imageryDate = NoDate
    /\ rawDirExists = FALSE /\ safeFolders = <<>>
    /\ tileFiles = {} /\ mosaicFiles = {}
    /\ pc = "idle"
    /\ LocalsInit

InitCalc == ProductIdle /\ NamesIdle /\ DlIdle /\ CalcInit

NextCalc ==
    \/ CalcEquation
    \/ CalcMaskNaN
    \/ CalcMaskInf
    \/ CalcMaskZero
    \/ CalcMaskAbove
    \/ CalcMaskBelow
    \/ CalcReturn

SpecCalc == InitCalc /\ [][NextCalc]_vars


\* ------------------------------------- getRequiredBandsPaths, file names
\* Lines 41-73 with the raw files named.  A file name is the list of its
\* tokens between underscores (T33TWM_20240105T100319_B04_10m.jp2); the raw
\* files of one granule share the tile and the sensing time.

Tiles == {"T33TWM", "T33TVM"}
SensingTime == "20240105T100319"
SensingDate == "20240105"

\* Band files the model puts into IMG_DATA/<resolution> of a granule.
ListedBands(res) == IF res = "R10m" THEN {"B04", "B08"} ELSE {"B8A", "B11"}

RawFile(tileId, band, res) ==
    <<tileId, SensingTime, band, IF res = "R10m" THEN "10m.jp2" ELSE "20m.jp2">>

\* The listings os.listdir can return for a set of files: any order.
Listings(files) ==
    {q \in SeqsUpTo(files, Cardinality(files)) :
        /\ Len(q) = Cardinality(files)
        /\ \A i, j \in DOMAIN q : i # j => q[i] # q[j]}

GranuleListings(res) ==
    UNION {Listings({RawFile(t, b, res) : b \in have}) :
              t \in Tiles, have \in (SUBSET ListedBands(res)) \ {{}}}

\* Lines 60-71 for one granule: the bands in the order of requiredBands, for
\* each band the raw files in the order of the listing; every match assigns
\* outFolder and outName again.
RECURSIVE MatchFrom(_, _, _, _, _, _)
MatchFrom(product, ii, order, rawBands, k, acc) ==
    IF k > Len(order) * Len(rawBands) THEN acc
    ELSE LET band == order[((k - 1) \div Len(rawBands)) + 1]
             rawBand == rawBands[((k - 1) % Len(rawBands)) + 1]
         IN  IF rawBand[3] = band
             THEN MatchFrom(product, ii, order, rawBands, k + 1,
                            [hasOut |-> TRUE,
                             outFolder |-> <<"productOutput", SensingDate, product>>,
                             outName |-> <<rawBand[1], rawBand[2], product, ii>>])
             ELSE MatchFrom(product, ii, order, rawBands, k + 1, acc)

NoMatch == [hasOut |-> FALSE, outFolder |-> <<>>, outName |-> <<>>]

MatchGranule(product, ii, order, rawBands) ==
    MatchFrom(product, ii, order, rawBands, 1, NoMatch)

\* A call: the product, its requiredBands in the order of the parameter
\* file, and the listing of every granule of the date.
NamesInit ==
    /\ \E product \in ProductNames :
       \E granules \in SeqsUpTo(GranuleListings(Resolution(product)), MaxGranules) :
          /\ granules # <<>>
          /\ nm = [pc |-> "granule", product |-> product,
                   order |-> BandOrder(product), granules |-> granules,
                   ii |-> 0, processingPaths |-> <<>>]

\* One pass of the loop over the .SAFE folders, lines 43-72.
NamesGranule ==
    /\ nm.pc = "granule"
    /\ nm.ii < Len(nm.granules)
    /\ nm' = [nm EXCEPT
                !.processingPaths =
                    Append(@, MatchGranule(nm.product, nm.ii, nm.order,
                                           nm.granules[nm.ii + 1])),
                !.ii = @ + 1]
    /\ UNCHANGED <<prodVars, calcVars, dlVars>>

\* Line 73.
NamesReturn ==
    /\ nm.pc = "granule"
    /\ nm.ii = Len(nm.granules)
    /\ nm' = [nm EXCEPT !.pc = "returned"]
    /\ UNCHANGED <<prodVars, calcVars, dlVars>>

InitNames == ProductIdle /\ CalcIdle /\ DlIdle /\ NamesInit

NextNames ==
    \/ NamesGranule
    \/ NamesReturn

SpecNames == InitNames /\ [][NextNames]_vars


\* ------------------------------------------------ the downloader and main
\* src/Sentinel2/A0_sentinel2_download.py and main of sentinel-2_process.py.

\* The i of `if i > 15: break`.
MaxAttempts == 15

StatusCodes == {200, 401, 503}

\* The file name of a catalogue entry as the list of its tokens between
\* underscores (S2A_MSIL2A_20240105T100319_...); the third one starts with
\* the acquisition day.
FileNames == {<<"S2A", "MSIL2A", [day |-> d, time |-> "T100319"]>> : d \in AcquisitionDates}

\* Line 143: filename.split("_")[2][:8].
AcqDate(filename) == filename[3].day

\* The .SAFE folder a successful extraction leaves in the date folder.
ExtractedSafe == [granule |-> TRUE, img |-> Resolutions, bands |-> AllBands]

\* What can happen to an entry in the loop of downoadImagery.
Outcomes == {"folderFailed", "downloadFailed", "extractFailed", "ok"}

NextDateIfDone(date, filename, outcome) ==
    IF outcome = "ok" THEN AcqDate(filename) ELSE date

\* Line 143 is the first statement of the loop body: imageryDate is
\* assigned before anything that can fail.
NextDate(date, filename, outcome) == AcqDate(filename)

\* The product stage before main calls it: the parameter file is there, the
\* output tree is empty.
ProductWaiting ==
    /\ productArgs \in {s \in SeqsUpTo(ProductNames, MaxProducts) :
                          IsConfiguration(s)}
    /\ imageryDate = NoDate
    /\ rawDirExists = FALSE /\ safeFolders = <<>>
    /\ tileFiles = {} /\ mosaicFiles = {}
    /\ pc = "waiting"
    /\ LocalsInit

DlInit ==
    /\ dlPc = "xmlFirst"
    /\ DlLocalsInit
    /\ rawFolders = {} /\ extracted = [d \in AcquisitionDates |-> 0]
    /\ lastDate = NoDate

\* Line 40: the first request; an exception ends the function in its
\* except branch, which returns None.
XmlFirstRequest ==
    /\ dlPc = "xmlFirst"
    /\ \/ /\ dlPc' = "params"
          /\ xmlContent' = "none"
          /\ UNCHANGED xmlStatus
       \/ /\ \E s \in StatusCodes : xmlStatus' = s
          /\ dlPc' = "xmlLoop"
          /\ UNCHANGED xmlContent
    /\ UNCHANGED <<prodVars, calcVars, nameVars, xmlI, productParams, dIdx, dDate,
                   rawFolders, extracted, lastDate>>

\* Lines 44-54: one pass of the while loop.
XmlRetry ==
    /\ dlPc = "xmlLoop"
    /\ xmlStatus # 200
    /\ \/ /\ dlPc' = "params"
          /\ xmlContent' = "none"
          /\ UNCHANGED <<xmlStatus, xmlI>>
       \/ /\ \E s \in StatusCodes : xmlStatus' = s
          /\ xmlI' = xmlI + 1
          /\ dlPc' = IF xmlI + 1 > MaxAttempts THEN "xmlBreak" ELSE "xmlLoop"
          /\ UNCHANGED xmlContent
    /\ UNCHANGED <<prodVars, calcVars, nameVars, productParams, dIdx, dDate,
                   rawFolders, extracted, lastDate>>

\* Line 55, after the loop ended on a 200 or on the break.
XmlReturn ==
    /\ \/ dlPc = "xmlLoop" /\ xmlStatus = 200
       \/ dlPc = "xmlBreak"
    /\ xmlContent' = IF xmlStatus = 200 THEN "catalogue" ELSE "errorBody"
    /\ dlPc' = "params"
    /\ UNCHANGED <<prodVars, calcVars, nameVars, xmlI, xmlStatus, productParams, dIdx,
                   dDate, rawFolders, extracted, lastDate>>

\* getProductParams, lines 60-124.  When ET.fromstring raises (None, or a
\* body that is not XML) the except branch only logs and `for child in
\* root` raises on the unbound root; a well-formed body without entries
\* gives an empty selection.
GetProductParams ==
    /\ dlPc = "params"
    /\ \/ /\ xmlContent \in {"none", "errorBody"}
          /\ dlPc' = "crashed"
          /\ UNCHANGED <<productParams, dIdx>>
       \/ /\ xmlContent = "errorBody"
          /\ productParams' = <<>>
          /\ dIdx' = 1
          /\ dlPc' = "download"
       \/ /\ xmlContent = "catalogue"
          /\ productParams' \in SeqsUpTo(FileNames, MaxGranules)
          /\ dIdx' = 1
          /\ dlPc' = "download"
    /\ UNCHANGED <<prodVars, calcVars, nameVars, xmlI, xmlStatus, xmlContent, dDate,
                   rawFolders, extracted, lastDate>>

\* Lines 141-181: one entry.  createOutFolder can only fail when it has to
\* make the folder; every failure is a `continue`; a download or an
\* extraction that fails leaves the folder without the product.
DownloadEntry ==
    /\ dlPc = "download"
    /\ dIdx <= Len(productParams)
    /\ LET filename == productParams[dIdx]
           d == AcqDate(filename)
       IN  \E outcome \in Outcomes :
             /\ outcome = "folderFailed" => d \notin rawFolders
             /\ dDate' = NextDate(dDate, filename, outcome)
             /\ rawFolders' = IF outcome = "folderFailed"
                              THEN rawFolders ELSE rawFolders \cup {d}
             /\ extracted' = IF outcome = "ok"
                             THEN [extracted EXCEPT ![d] = @ + 1] ELSE extracted
    /\ dIdx' = dIdx + 1
    /\ UNCHANGED <<prodVars, calcVars, nameVars, dlPc, xmlI, xmlStatus, xmlContent,
                   productParams, lastDate>>

\* Line 183: imageryDate is unbound when the loop body never ran.
DownloadReturn ==
    /\ dlPc = "download"
    /\ dIdx > Len(productParams)
    /\ dlPc' = IF dDate = NoDate THEN "crashed" ELSE "dlReturned"
    /\ UNCHANGED <<prodVars, calcVars, nameVars, dlLocals, rawFolders, extracted,
                   lastDate>>

\* main, lines 19-23: the date the downloader returned goes to
\* sentinelProductCalculator, which finds under the raw-input root what the
\* downloader left there.
HandOver ==
    /\ dlPc = "dlReturned"
    /\ pc = "waiting"
    /\ imageryDate' = dDate
    /\ rawDirExists' = (dDate \in rawFolders)
    /\ safeFolders' = [k \in 1..extracted[dDate] |-> ExtractedSafe]
    /\ pc' = "nextProduct"
    /\ lastDate' = AcqDate(productParams[Len(productParams)])
    /\ dlPc' = "handed"
    /\ xmlI' = 0 /\ xmlStatus' = 0 /\ xmlContent' = "none"
    /\ productParams' = <<>> /\ dIdx' = 0 /\ dDate' = NoDate
    /\ UNCHANGED <<productArgs, diskVars, locVars, mainVars, resolution, tileHist,
                   stage, runHist, calcVars, nameVars, rawFolders, extracted>>

InitDL == ProductWaiting /\ CalcIdle /\ NamesIdle /\ DlInit

NextDL ==
    \/ XmlFirstRequest
    \/ XmlRetry
    \/ XmlReturn
    \/ GetProductParams
    \/ DownloadEntry
    \/ DownloadReturn
    \/ HandOver
    \/ StartProduct
    \/ ResolvePaths
    \/ CreateOutFolders
    \/ TileCheck
    \/ OpenBands
    \/ Calculate
    \/ Materialize
    \/ Warp
    \/ MosaicName
    \/ CreateMosaicFolder
    \/ BuildVRT
    \/ Return
    \/ Publish
    \/ MainDone

SpecDL == InitDL /\ [][NextDL]_vars

\* Every request gets a response or raises, and the program takes its next
\* statement.
SpecDLFair == SpecDL /\ WF_vars(NextDL)


\* ---------------------------------------------------------------- claims

InTileLoop == pc \in {"tileLoop", "openBands", "calculate", "materialize", "warp"}

Range(q) == {q[k] : k \in DOMAIN q}

\* C1: no exception escapes calculateProducts, whatever fails inside it.
C1_NoExceptionEscapes == pc # "calcCrashed"

\* C2: a product whose getRequiredBandsPaths raised is skipped: no granule
\* is cache-checked or processed for it, gdal.BuildVRT is not called for
\* it, it gets no newDate, and the loop goes on to the next product.
C2_ResolveFailureSkipsProduct ==
    \A p \in raisedFor :
        /\ p = prodIdx => looked = {} /\ processed = {} /\ vrtCalls = {}
        /\ newProducts[p].newDate = NoDate
        /\ pc # "calcCrashed"

\* C3: when main is over, publishNewDataset has been called exactly once
\* for each product that completed mosaic assembly, in order, with its
\* name and the imagery date, and for no other product.
RECURSIVE CompletedPairs(_)
CompletedPairs(p) ==
    IF p = 0 THEN <<>>
    ELSE IF p \in completed
         THEN Append(CompletedPairs(p - 1), <<productArgs[p], imageryDate>>)
         ELSE CompletedPairs(p - 1)

C3_PublishesExactlyCompleted ==
    pc \in {"done", "mainCrashed"} => published = CompletedPairs(Len(productArgs))

\* C4: the mapping returned by calculateProducts has an entry for a product
\* iff the product completed mosaic assembly, and every entry carries a
\* name and a newDate equal to the imagery date.
C4_ReturnedMappingIsCompleted ==
    pc = "returned" =>
        /\ DOMAIN newProducts = completed
        /\ \A p \in DOMAIN newProducts :
              /\ newProducts[p].name = productArgs[p]
              /\ newProducts[p].newDate = imageryDate

\* C5: a granule whose tile exists when its iteration starts is checked
\* before any band is opened, none of openRasterOneBand, the calculators,
\* createMemoryRaster or gdal.Warp is called for it, and its path is still
\* in the tile list of the product.
C5_CacheShortCircuit ==
    /\ processed \subseteq {e.idx : e \in looked}
    /\ \A i \in hits :
          /\ i \notin processed
          /\ \E e \in looked :
                /\ e.idx = i
                /\ InTileLoop \/ pc \in {"mosaicFolder", "buildVRT"}
                      => TilePath(e) \in Range(tiles)
                /\ \A c \in vrtCalls : TilePath(e) \in Range(c.tiles)

C5_Witness ==
    /\ hits # {}
    /\ processed # {}
    /\ \E c \in vrtCalls : Len(c.tiles) = 2

\* The paths of the granules in G, in granule-index order, for a product.
RECURSIVE PathsOf(_, _, _)
PathsOf(name, G, i) ==
    IF i > MaxGranules THEN <<>>
    ELSE IF i \in G
         THEN <<[date |-> imageryDate, product |-> name, ii |-> i]>>
                  \o PathsOf(name, G, i + 1)
         ELSE PathsOf(name, G, i + 1)

\* C6: the tile list handed to gdal.BuildVRT for a product holds exactly
\* the paths of its granules that were freshly produced or cache hits, each
\* once, in granule-index order.
C6_MosaicComposition ==
    \A c \in vrtCalls : c.tiles = PathsOf(CurrentName, good, 0)

\* C7: gdal.BuildVRT is never called with an empty tile list, and a
\* product whose tile list was empty gets no newDate.
C7_EmptyTileListSkipsMosaic ==
    /\ \A c \in vrtCalls : c.tiles # <<>>
    /\ pc = "nextProduct" /\ prodIdx \in completed => tiles # <<>>

\* C8: an entry with an unresolved required band code never reaches the
\* tile pipeline: no output-path lookup, no existence check, no band opening.
C8_IncompleteEntryNotProcessed ==
    \A e \in looked : e.res = e.req

\* C9: if a granule directory cannot be listed during getRequiredBandsPaths,
\* the call hands no entry to the orchestrator and the run is not aborted.
C9_ListingFailureYieldsNothing ==
    resolution.listFailed => resolution.entries = <<>> /\ pc # "calcCrashed"

C11_AppendOnly ==
    /\ pc = "warp" => ~PathExists(TilePath(CurrentEntry))
    /\ \A c \in vrtCalls : ~c.existed

\* C11 (amended): gdal.Warp is never called with a destination that exists,
\* so a tile file on disk is never written again and stays on disk.
C11_TilesAppendOnly ==
    [][/\ pc' = "warp" => TilePath(CurrentEntry)' \notin tileFiles'
       /\ tileFiles \subseteq tileFiles'
       /\ tileFiles' # tileFiles =>
             /\ pc = "warp"
             /\ tileFiles' \ tileFiles = {TilePath(CurrentEntry)}
             /\ TilePath(CurrentEntry) \notin tileFiles
      ]_vars

\* One granule of the product was a cache hit, another one was written by
\* gdal.Warp in the same run.
C11_Witness ==
    /\ hits # {}
    /\ \E e \in looked : e.idx \notin hits /\ e.idx \in good /\ TilePath(e) \in tileFiles

\* C12: the downloader always hands main a date, and when calculateProducts
\* starts the folder of that date exists under the raw-input root.
C12_RawTreeExists ==
    /\ dlPc # "crashed"
    /\ dlPc = "handed" => rawDirExists

IsNoData(v) == v = NoData

InRange(v, name) ==
    /\ v.k = "num"
    /\ ~Greater(v, UpperBound(name))
    /\ ~Less(v, LowerBound(name))

\* C13: in the array a calculator returns, every pixel at which one of its
\* bands is 0 holds -9999.0, whatever the equation gave there.
C13_ZeroBandMasked ==
    cPc = "returned" =>
        \A p \in DOMAIN cIndex :
            (\E b \in RequiredBands(cName) : cBands[b][p] = 0) => IsNoData(cIndex[p])

\* A pixel with a zero band where the equation gave a value inside the
\* range, so that only the zero mask makes it no-data.
C13_Witness ==
    /\ cPc = "returned"
    /\ \E p \in DOMAIN cIndex :
          /\ \E b \in RequiredBands(cName) : cBands[b][p] = 0
          /\ InRange(cRaw[p], cName)
          /\ IsNoData(cIndex[p])

\* C14: every pixel of the returned array is -9999.0 or a finite value
\* inside the range of the index; a pixel where the equation divided by
\* zero (NaN or an infinity) is returned as -9999.0; no mask statement turns
\* a pixel that holds -9999.0 into anything else.
C14_OutputRange ==
    [][/\ cPc' = "returned" =>
             \A p \in DOMAIN cIndex' :
                 /\ IsNoData(cIndex'[p]) \/ InRange(cIndex'[p], cName)
                 /\ cRaw'[p].k # "num" => IsNoData(cIndex'[p])
       /\ cPc # "equation" =>
             \A p \in DOMAIN cIndex : IsNoData(cIndex[p]) => IsNoData(cIndex'[p])
      ]_vars

\* An array was returned in which the equation had given an infinity or
\* NaN at a pixel where no band is 0.
C14_Witness ==
    /\ cPc = "returned"
    /\ \E p \in DOMAIN cIndex :
          /\ cRaw[p].k # "num"
          /\ \A b \in RequiredBands(cName) : cBands[b][p] # 0
          /\ IsNoData(cIndex[p])

\* C16: getRequiredBandsPaths gives every granule of the product one output
\* file name; the name is the one any order of the required bands and any
\* order of the directory listing would give; two granule indices never get
\* the same output path.
C16_OneOutputNamePerPair ==
    nm.pc = "returned" =>
        /\ \A g \in DOMAIN nm.processingPaths :
              /\ nm.processingPaths[g].hasOut
              /\ \A order \in Listings(RequiredBands(nm.product)) :
                 \A rawBands \in Listings(Range(nm.granules[g])) :
                     MatchGranule(nm.product, g - 1, order, rawBands)
                         = nm.processingPaths[g]
        /\ \A g, h \in DOMAIN nm.processingPaths :
              /\ g # h
              /\ nm.processingPaths[g].hasOut
              /\ nm.processingPaths[h].hasOut
              => <<nm.processingPaths[g].outFolder, nm.processingPaths[g].outName>>
                     # <<nm.processingPaths[h].outFolder, nm.processingPaths[h].outName>>

\* The tile states of section 4.7, read off the current iteration.
StageRank ==
    IF stage.mem THEN 3
    ELSE IF stage.calc # {} THEN 2
    ELSE IF stage.loaded # {} THEN 1
    ELSE 0

InIteration == pc \in {"openBands", "calculate", "materialize", "warp"}

\* C15: within an iteration the tile only moves forward; gdal.Warp is
\* reached only when every required band of the product was loaded for this
\* granule, the calculator of the product's name and no other was called and
\* its result was materialized in this iteration; a tile on disk is not
\* taken through the pipeline again and stays on disk.
C15_TileStateMachine ==
    [][/\ InIteration /\ InIteration' => StageRank' >= StageRank
       /\ pc' = "calculate" => stage'.loaded = RequiredBands(CurrentName)
       /\ pc' = "materialize" => stage'.calc = {CurrentName}
       /\ pc' = "warp" =>
             /\ stage'.loaded = RequiredBands(CurrentName)
             /\ stage'.calc = {CurrentName}
             /\ stage'.mem
             /\ tile' = tile /\ prodIdx' = prodIdx
       /\ tileFiles' # tileFiles => pc = "warp" /\ stage.mem
       /\ InIteration' => TilePath(CurrentEntry)' \notin tileFiles'
       /\ tileFiles \subseteq tileFiles'
      ]_vars

\* gdal.Warp has just written the tile of a granule that went through all
\* the stages in this iteration.
C15_Witness ==
    /\ pc = "tileLoop"
    /\ stage.mem /\ stage.calc = {CurrentName}
    /\ tile > 1
    /\ TilePath(paths.entries[tile - 1]) \in tileFiles
    /\ paths.entries[tile - 1].idx \notin hits

\* C17: getProductXML ends for every sequence of status codes; it requests
\* again only after a status other than 200; it has made at most 15 retries
\* when it gives up.
C17_XmlBoundedRetries ==
    /\ [](xmlI <= MaxAttempts)
    /\ [][xmlI' > xmlI => xmlStatus # 200]_vars
    /\ <>(dlPc \notin {"xmlFirst", "xmlLoop", "xmlBreak"})

\* C18: for every product the entries iterated, the tile paths handed to
\* gdal.BuildVRT and the mosaic name come from the resolution made for this
\* product in this iteration: the tiles are the product's own, the mosaic
\* name carries the product's name, nothing is left over from the product
\* before.
C18_CrossProductIsolation ==
    /\ InTileLoop => /\ ~resolution.raised
                     /\ paths.entries = resolution.entries
                     /\ \A k \in DOMAIN paths.entries :
                           paths.entries[k].prod = CurrentName
    /\ pc \in {"mosaicFolder", "buildVRT"} => mosaicName.product = CurrentName
    /\ \A c \in vrtCalls :
          /\ c.name.product = c.folder
          /\ \A j \in DOMAIN c.tiles : c.tiles[j].product = c.folder

====
